---- MODULE Spec2Model ----
(***************************************************************************)
(* A model of tools/restore_dos.py: the decoders of the volume header      *)
(* record (BackupID) and of the fragment record (BackupFile), the          *)
(* reassembly state of Restore (process_file, got_all_slices,              *)
(* write_slices) and the loop of restore_all.                              *)
(*                                                                         *)
(* Bytes are the integers 0..255.  A Python bytes object is a sequence of  *)
(* bytes and a Python str is a sequence of code points, so that decoding,  *)
(* escaping and path normalisation are computed, character by character.   *)
(* Python indexes from 0 and TLA+ from 1: At(data, i) is data[i].          *)
(***************************************************************************)
EXTENDS Integers, Sequences, FiniteSets, TLC

\* ------------------------------------------------------------------ bounds
\* Fragment sequence numbers of the inputs range over 1..MaxSeq.
MaxSeq == 3
\* A run holds at most MaxFiles fragment files, over all its volumes.
MaxFiles == 3
\* A run holds at most MaxVolumes volumes (BACKUPID.@@@ headers).
MaxVolumes == 2

\* --------------------------------------------------------------- constants
HeaderSize == 128
PathLenAt == 83
MaxPathLen == 78
ContentAt == 128

\* ------------------------------------------------------------- characters
Backslash == <<92>>
Slash == <<47>>
Percent == <<37>>
\* 'bad_file'
BadFile == <<98, 97, 100, 95, 102, 105, 108, 101>>

\* ---------------------------------------------------------------- helpers
At(data, i) == data[i + 1]

\* data[from:to], clipped to the length of data as Python clips a slice
Slice(data, from, to) ==
    LET hi == IF to < Len(data) THEN to ELSE Len(data)
    IN  IF from >= hi THEN <<>> ELSE [k \in 1..(hi - from) |-> data[from + k]]

RECURSIVE Flatten(_)
\* ''.join(parts) and b''.join(parts)
Flatten(parts) ==
    IF parts = <<>> THEN <<>> ELSE Head(parts) \o Flatten(Tail(parts))

loadshort(blob, at) == At(blob, at + 1) * 256 + At(blob, at)

\* ------------------------------------------------------- BackupID (header)
\* a loop over the reserved bytes that starts two bytes early, at day and
\* month
HeaderErrors_from5(data) ==
    LET idx == [k \in 1..(Len(data) - 5) |-> k + 4]
        bad == SelectSeq(idx, LAMBDA i : At(data, i) # 0)
    IN  [k \in 1..Len(bad) |->
            [kind |-> "unexpected non-zero", at |-> bad[k], value |-> At(data, bad[k])]]

\* for i in range(7, len(data)): if data[i] != 0: errors.append(...)
HeaderErrors(data) ==
    LET idx == [k \in 1..(Len(data) - 7) |-> k + 6]
        bad == SelectSeq(idx, LAMBDA i : At(data, i) # 0)
    IN  [k \in 1..Len(bad) |->
            [kind |-> "unexpected non-zero", at |-> bad[k], value |-> At(data, bad[k])]]

\* an assertion that lets every flag but 0x00 count as "last"
HeaderFlagOk_any(data) == At(data, 0) >= 0

\* assert md_flag == 0x00 or md_flag == 0xff
HeaderFlagOk(data) == At(data, 0) = 0 \/ At(data, 0) = 255

BackupID(path, data) ==
    [path |-> path,
     last |-> (At(data, 0) = 255),
     sequence |-> loadshort(data, 1),
     year |-> loadshort(data, 3),
     day |-> At(data, 5),
     month |-> At(data, 6),
     errors |-> HeaderErrors(data)]

\* BackupID.from_file: both assertions pass
BackupIDFromFileOk(blob) == Len(blob) = HeaderSize /\ HeaderFlagOk(blob)

\* ----------------------------------------------------- BackupFile (fragment)
HexDigit(d) == IF d < 10 THEN 48 + d ELSE 87 + d

\* the nested decode(b): printable ASCII verbatim, otherwise '%' and two
\* lowercase hex digits
decode(b) ==
    IF b < 128 /\ b >= 32 THEN <<b>>
    ELSE Percent \o <<HexDigit(b \div 16), HexDigit(b % 16)>>

IsAscii(raw) == \A k \in 1..Len(raw) : raw[k] < 128

\* raw_path.decode('ascii'), and on UnicodeDecodeError the escaped join
DecodePath(raw) ==
    IF IsAscii(raw) THEN raw
    ELSE Flatten([k \in 1..Len(raw) |-> decode(raw[k])])

\* Trim needless trailing NUL
TrimNul(raw) ==
    IF raw[Len(raw)] = 0 THEN SubSeq(raw, 1, Len(raw) - 1) ELSE raw

\* a range test that takes the bound itself for too long
PathLenOk_below(path_len) == ~(path_len = 0 \/ path_len >= MaxPathLen)

PathLenOk(path_len) == ~(path_len = 0 \/ path_len > MaxPathLen)

FilePath(data) ==
    LET path_len == At(data, PathLenAt)
    IN  IF PathLenOk(path_len)
        THEN DecodePath(TrimNul(Slice(data, 5, 5 + path_len)))
        ELSE BadFile

FileFlagOk(md_flag) == md_flag = 0 \/ md_flag = 255

FileErrors(data) ==
    LET path_len == At(data, PathLenAt)
        md_flag == At(data, 0)
    IN  (IF PathLenOk(path_len) THEN <<>>
         ELSE <<[kind |-> "unexpected file path len", path |-> <<>>,
                 value |-> path_len]>>)
        \o
        (IF FileFlagOk(md_flag) THEN <<>>
         ELSE <<[kind |-> "unexpected flag value", path |-> FilePath(data),
                 value |-> md_flag]>>)

\* data[0x53] needs 84 bytes; a shorter record raises IndexError
BackupFileOk(data) == Len(data) > PathLenAt

BackupFile(path, data) ==
    [image_path |-> path,
     last |-> (At(data, 0) = 255),
     sequence |-> loadshort(data, 1),
     unknown |-> loadshort(data, 3),
     path_len |-> At(data, PathLenAt),
     path |-> FilePath(data),
     content |-> Slice(data, ContentAt, Len(data)),
     errors |-> FileErrors(data)]

is_complete(f) == f.last /\ f.sequence = 1

\* ------------------------------------------------------------------ state
VARIABLES
    completed,  \* Restore.completed: the set of paths done
    done,       \* Restore.done: output path -> bytes written there before
    errors,     \* Restore.errors: the skipped fragments, in order
    partials,   \* Restore.partials: path -> list of fragments (the keys present)
    sets,       \* Restore.sets: header path -> BackupID
    files,      \* the output tree: output path -> bytes of the file there
    dirs,       \* the output tree: the directories made
    changed,    \* the 'content changed on:' lines printed, in order
    report,     \* the paths printed under 'Unfinished files:'
    pc,         \* where restore_all is: "start", "disk", "done" or "aborted"
    vol,        \* the number of headers restore_all has taken from its list
    nfiles,     \* the number of fragment files process_disk has handed over
    arrived,    \* history: the fragments decoded by process_file, in order
    writes      \* history: the files written by write_slices, in order

vars == <<completed, done, errors, partials, sets, files, dirs, changed,
          report, pc, vol, nfiles, arrived, writes>>

\* a dict with no key
EmptyMap == [k \in {} |-> <<>>]

\* dict.get(key) with the default for a missing key
Get(map, key, default) == IF key \in DOMAIN map THEN map[key] ELSE default

\* map[key] = value
Put(map, key, value) ==
    [k \in DOMAIN map \cup {key} |-> IF k = key THEN value ELSE map[k]]

\* del map[key]
Del(map, key) == [k \in DOMAIN map \ {key} |-> map[k]]

\* ---------------------------------------------------------- got_all_slices
\* the place of x in a list sorted by sequence: after every element whose
\* sequence is not greater (sorted() is stable)
InsertSlice(s, x) ==
    LET n == Cardinality({k \in 1..Len(s) : s[k].sequence <= x.sequence})
    IN  SubSeq(s, 1, n) \o <<x>> \o SubSeq(s, n + 1, Len(s))

RECURSIVE SortedSlices(_)
\* sorted(slices, key=lambda x: x.sequence)
SortedSlices(slices) ==
    IF slices = <<>> THEN <<>>
    ELSE InsertSlice(SortedSlices(SubSeq(slices, 1, Len(slices) - 1)),
                     slices[Len(slices)])

\* a got_all_slices that looks at the last flag of the final element only
got_all_slices_lastonly(slices) ==
    LET s == SortedSlices(slices)
    IN  IF s[Len(s)].last THEN "True" ELSE "False"

\* a got_all_slices that counts each sequence number once
got_all_slices_set(slices) ==
    LET s == SortedSlices(slices)
        nums == {s[i].sequence : i \in 1..Len(s)}
    IN  IF nums = 1..Cardinality(nums) /\ s[Len(s)].last
        THEN "True" ELSE "False"

\* a got_all_slices that forgets the last flag of the final element: a list
\* numbered 1..N is taken as whole
got_all_slices_numbering(slices) ==
    LET s == SortedSlices(slices)
    IN  IF \A i \in 1..Len(s) : s[i].sequence = i THEN "True" ELSE "False"

\* The loop of got_all_slices stops at the first index where the numbering
\* breaks (return False) or where a fragment that is not the final one has
\* last set: error(...) is called there, and error is no name of the module,
\* so the call raises NameError.  The numbering is tested first.
got_all_slices(slices) ==
    LET s == SortedSlices(slices)
        stops == {i \in 1..Len(s) :
                     s[i].sequence # i \/ (s[i].last /\ i # Len(s))}
        first == CHOOSE i \in stops : \A j \in stops : i <= j
    IN  IF stops = {} THEN (IF s[Len(s)].last THEN "True" ELSE "False")
        ELSE IF s[first].sequence # first THEN "False"
        ELSE "NameError"

\* ------------------------------------------------------------ write_slices
Lower(c) == IF c >= 65 /\ c <= 90 THEN c + 32 ELSE c

\* slices[0].path.lower().replace('\\', '/'), less one leading '/'
OutputPath(path) ==
    LET low == [k \in 1..Len(path) |->
                   IF Lower(path[k]) = Backslash[1] THEN Slash[1]
                   ELSE Lower(path[k])]
    IN  IF low # <<>> /\ low[1] = Slash[1] THEN Tail(low) ELSE low

RECURSIVE RStripSlash(_)
RStripSlash(p) ==
    IF p # <<>> /\ p[Len(p)] = Slash[1]
    THEN RStripSlash(SubSeq(p, 1, Len(p) - 1)) ELSE p

\* os.path.dirname
dirname(p) ==
    LET cut == {k \in 1..Len(p) : p[k] = Slash[1]}
        i == IF cut = {} THEN 0 ELSE CHOOSE k \in cut : \A j \in cut : j <= k
        head == SubSeq(p, 1, i)
    IN  IF head # <<>> /\ \E k \in 1..Len(head) : head[k] # Slash[1]
        THEN RStripSlash(head) ELSE head

\* ----------------------------------------------------- the file system
\* The run reads ./disks and writes into '.', the working directory.  A place
\* in the file system is the sequence of the components of its absolute name
\* (<<>> is the root).  What exists before the run: the working directory
\* /w/x and the directories above it, the input directory disks in it, and in
\* disks one directory V1, V2, .. for each volume, with the BACKUPID.@@@ and
\* the fragment files of the volume under upper-case names (an output name is
\* lower-case, so that it names none of these files).  dirs holds the
\* directories the run has made and files the files it has written, each
\* under the name of its place: relative to the working directory for a place
\* in it, absolute for any other.
Dot == <<46>>

DotDot == <<46, 46>>

\* the working directory: /w/x
WorkParts == <<<<119>>, <<120>>>>

\* restore_all('disks')
InputDir == <<100, 105, 115, 107, 115>>

\* the directory of the volume v in disks: V1, V2, ..
VolName(v) == <<86, 48 + v>>

\* a str with an embedded null byte: ValueError in every os call
HasNul(p) == \E k \in 1..Len(p) : p[k] = 0

RECURSIVE Parts(_)
\* the non-empty components of p
Parts(p) ==
    IF p = <<>> THEN <<>>
    ELSE IF p[1] = Slash[1] THEN Parts(Tail(p))
    ELSE LET cut == {k \in 1..Len(p) : p[k] = Slash[1]}
             n == IF cut = {} THEN Len(p) + 1
                  ELSE CHOOSE k \in cut : \A j \in cut : k <= j
         IN  <<SubSeq(p, 1, n - 1)>> \o Parts(SubSeq(p, n + 1, Len(p)))

RECURSIVE JoinParts(_)
\* '/'.join(parts)
JoinParts(parts) ==
    IF parts = <<>> THEN <<>>
    ELSE IF Len(parts) = 1 THEN parts[1]
    ELSE parts[1] \o Slash \o JoinParts(Tail(parts))

\* the place c is the working directory or lies in it
InWork(c) ==
    Len(c) >= Len(WorkParts) /\ SubSeq(c, 1, Len(WorkParts)) = WorkParts

\* the name dirs and files hold the place c under
Name(c) ==
    IF InWork(c) THEN JoinParts(SubSeq(c, Len(WorkParts) + 1, Len(c)))
    ELSE Slash \o JoinParts(c)

\* the directory above the place c (the root is above itself)
Parent(c) == IF c = <<>> THEN <<>> ELSE SubSeq(c, 1, Len(c) - 1)

\* one component of a path, taken from the directory c
Step(c, name) ==
    IF name = Dot THEN c
    ELSE IF name = DotDot THEN Parent(c)
    ELSE Append(c, name)

\* the directories there are before the run
EnvDirs ==
    {SubSeq(WorkParts, 1, k) : k \in 0..Len(WorkParts)}
    \cup {Append(WorkParts, InputDir)}
    \cup {WorkParts \o <<InputDir, VolName(v)>> : v \in 1..MaxVolumes}

IsDirAt(c, dirsNow) == c \in EnvDirs \/ Name(c) \in dirsNow

RECURSIVE Walk(_, _, _, _, _)
\* the components parts[k..last] taken as directories, one after another,
\* from the directory c
Walk(c, parts, k, last, dirsNow) ==
    IF k > last THEN [err |-> "", at |-> c]
    ELSE IF IsDirAt(Step(c, parts[k]), dirsNow)
    THEN Walk(Step(c, parts[k]), parts, k + 1, last, dirsNow)
    ELSE IF Name(Step(c, parts[k])) \in DOMAIN files
    THEN [err |-> "NotADirectoryError", at |-> c]
    ELSE [err |-> "FileNotFoundError", at |-> c]

\* the place the final component of parts resolves to, w being the outcome
\* of the walk through the components before it
Landed(w, parts) ==
    IF w.err # "" THEN w
    ELSE IF parts = <<>> THEN [err |-> "", at |-> <<>>]
    ELSE [err |-> "", at |-> Step(w.at, parts[Len(parts)])]

\* path resolution of the name p: the error it ends in, or the place
Lookup(p, dirsNow) ==
    IF HasNul(p) THEN [err |-> "ValueError", at |-> <<>>]
    ELSE IF p = <<>> THEN [err |-> "FileNotFoundError", at |-> <<>>]
    ELSE Landed(Walk(IF p[1] = Slash[1] THEN <<>> ELSE WorkParts,
                     Parts(p), 1, Len(Parts(p)) - 1, dirsNow),
                Parts(p))

\* os.path.isdir(p)
isdir(p, dirsNow) ==
    Lookup(p, dirsNow).err = "" /\ IsDirAt(Lookup(p, dirsNow).at, dirsNow)

\* os.path.exists(p)
exists(p, dirsNow) ==
    \/ isdir(p, dirsNow)
    \/ /\ Lookup(p, dirsNow).err = ""
       /\ Name(Lookup(p, dirsNow).at) \in DOMAIN files
       /\ p[Len(p)] # Slash[1]
       /\ Parts(p)[Len(Parts(p))] \notin {Dot, DotDot}

\* os.mkdir(p) once p is resolved to r: the exception raised, if any, and
\* the directories the run has made by then
MadeDir(p, r, dirsNow) ==
    IF r.err # "" THEN [err |-> r.err, dirs |-> dirsNow]
    ELSE IF \/ Parts(p) = <<>>
            \/ Parts(p)[Len(Parts(p))] \in {Dot, DotDot}
            \/ IsDirAt(r.at, dirsNow)
            \/ Name(r.at) \in DOMAIN files
    THEN [err |-> "FileExistsError", dirs |-> dirsNow]
    ELSE [err |-> "", dirs |-> dirsNow \cup {Name(r.at)}]

mkdir(p, dirsNow) == MadeDir(p, Lookup(p, dirsNow), dirsNow)

\* os.path.split
split(p) ==
    LET cut == {k \in 1..Len(p) : p[k] = Slash[1]}
        i == IF cut = {} THEN 0 ELSE CHOOSE k \in cut : \A j \in cut : j <= k
    IN  [head |-> dirname(p), tail |-> SubSeq(p, i + 1, Len(p))]

\* the head and tail os.makedirs works with: those of the head of name when
\* name has no tail
SplitName(name) ==
    IF split(name).tail = <<>> THEN split(split(name).head) ELSE split(name)

\* the last lines of os.makedirs: mkdir(name), and with exist_ok an OSError
\* is let pass when name is a directory
LeafMade(name, m, dirsNow) ==
    IF m.err # "" /\ m.err # "ValueError" /\ isdir(name, dirsNow)
    THEN [err |-> "", dirs |-> dirsNow]
    ELSE m

\* os.makedirs once the directories above name are dealt with, up being the
\* outcome of that: a FileExistsError from there is let pass
AboveMade(name, st, up) ==
    IF up.err # "" /\ up.err # "FileExistsError" THEN up
    ELSE IF st.tail = Dot THEN [err |-> "", dirs |-> up.dirs]
    ELSE LeafMade(name, mkdir(name, up.dirs), up.dirs)

RECURSIVE MakeDirs(_, _, _)
\* os.makedirs(name, exist_ok=True) with st = SplitName(name)
MakeDirs(name, st, dirsNow) ==
    IF st.head # <<>> /\ st.tail # <<>> /\ ~exists(st.head, dirsNow)
    THEN AboveMade(name, st, MakeDirs(st.head, SplitName(st.head), dirsNow))
    ELSE LeafMade(name, mkdir(name, dirsNow), dirsNow)

\* What is left of MakeDirs for write_slices: whether it raised, and the
\* directories the run has made by then.
DirsMade(m) == [raised |-> m.err # "", dirs |-> m.dirs]

\* os.makedirs(name, exist_ok=True): it raises for the empty name (the
\* dirname of a path with no directory part), for a name with a null byte,
\* and when a file stands where a directory is needed; the directories above
\* the failing one are made before it raises.
makedirs(name) == DirsMade(MakeDirs(name, SplitName(name), dirs))

\* os.path.join(self.root, o_path), self.root being '.'
join(o_path) ==
    IF o_path # <<>> /\ o_path[1] = Slash[1] THEN o_path
    ELSE Dot \o Slash \o o_path

\* the name of the place open(os.path.join(self.root, o_path), 'wb') writes
OpenTarget(o_path, dirsNow) == Name(Lookup(join(o_path), dirsNow).at)

\* open(os.path.join(self.root, o_path), 'wb') raises when the name has a
\* null byte, when a directory on the way is missing or is a file, and when
\* the name is that of a directory (it ends in '/', '.' or '..', or there is
\* a directory at its place)
OpenRaises(o_path, dirsNow) ==
    \/ Lookup(join(o_path), dirsNow).err # ""
    \/ join(o_path)[Len(join(o_path))] = Slash[1]
    \/ IsDirAt(Lookup(join(o_path), dirsNow).at, dirsNow)

\* content: the contents of the slices, sorted by sequence, one after another
SlicesContent(slices) ==
    Flatten([k \in 1..Len(slices) |-> SortedSlices(slices)[k].content])

\* What write_slices leaves behind once o_path, the outcome md of makedirs
\* and content are known.  before = self.done.get(o_path): self.done is read
\* and never assigned, so before is always None.
Written(slices, o_path, md, content, before) ==
    IF md.raised \/ OpenRaises(o_path, md.dirs)
    THEN [raised |-> TRUE, dirs |-> md.dirs, files |-> files,
          changed |-> changed, writes |-> writes]
    ELSE [raised |-> FALSE,
          dirs |-> md.dirs,
          files |-> Put(files, OpenTarget(o_path, md.dirs), content),
          changed |-> IF before # <<>> /\ before # content
                      THEN Append(changed, o_path) ELSE changed,
          writes |-> Append(writes, [path |-> slices[1].path,
                                     o_path |-> o_path,
                                     content |-> content,
                                     parts |-> Len(slices)])]

WriteTo(slices, o_path) ==
    Written(slices, o_path, makedirs(dirname(o_path)), SlicesContent(slices),
            Get(done, o_path, <<>>))

\* write_slices(slices): the output tree, the lines printed and whether it
\* raised
write_slices(slices) == WriteTo(slices, OutputPath(slices[1].path))

\* write_file(f)
write_file(f) == write_slices(<<f>>)

\* ------------------------------------------------------------ process_file
\* the state of Restore and of the output tree as it is, nothing raised
Unchanged ==
    [raised |-> FALSE, completed |-> completed, errors |-> errors,
     partials |-> partials, files |-> files, dirs |-> dirs,
     changed |-> changed, writes |-> writes]

\* if b_file.errors: the fragment goes to self.errors and nowhere else
skip_file(b_file) == [Unchanged EXCEPT !.errors = Append(errors, b_file)]

\* what a write w (the outcome of write_slices) has made of the output tree
AfterWrite(w) ==
    [Unchanged EXCEPT !.raised = w.raised, !.files = w.files, !.dirs = w.dirs,
                      !.changed = w.changed, !.writes = w.writes]

\* if b_file.is_complete: write_file, then completed.add, which is not
\* reached when the write raises
complete_file(b_file, w) ==
    IF w.raised THEN AfterWrite(w)
    ELSE [AfterWrite(w) EXCEPT !.completed = completed \cup {b_file.path}]

\* a finish that empties self.partials instead of deleting the one entry
finish_slices_clear(b_file, slices, w) ==
    IF w.raised
    THEN [AfterWrite(w) EXCEPT !.partials = Put(partials, b_file.path, slices)]
    ELSE [AfterWrite(w) EXCEPT
              !.completed = completed \cup {b_file.path},
              !.partials = EmptyMap]

\* if self.got_all_slices(slices): write_slices, completed.add and the del
\* of the pending entry, neither reached when the write raises
finish_slices(b_file, slices, w) ==
    IF w.raised
    THEN [AfterWrite(w) EXCEPT !.partials = Put(partials, b_file.path, slices)]
    ELSE [AfterWrite(w) EXCEPT
              !.completed = completed \cup {b_file.path},
              !.partials = Del(Put(partials, b_file.path, slices), b_file.path)]

\* else: the fragment is appended to the pending list of its path (slices is
\* the list after the append) and got_all_slices decides; the append stays
\* when got_all_slices or write_slices raises
pend_file(b_file, slices, got) ==
    IF got = "NameError"
    THEN [Unchanged EXCEPT !.raised = TRUE,
                           !.partials = Put(partials, b_file.path, slices)]
    ELSE IF got = "False"
    THEN [Unchanged EXCEPT !.partials = Put(partials, b_file.path, slices)]
    ELSE finish_slices(b_file, slices, write_slices(slices))

append_file(b_file, slices) ==
    pend_file(b_file, slices, got_all_slices(slices))

\* the rest of process_file, for a fragment without errors.  There is no test
\* of self.completed (it is commented out).
merge_file(b_file) ==
    IF is_complete(b_file)
    THEN complete_file(b_file, write_file(b_file))
    ELSE append_file(b_file, Append(Get(partials, b_file.path, <<>>), b_file))

\* a process_file that forgets to skip the fragments with errors
process_file_merging(b_file) == merge_file(b_file)

\* process_file on a decoded fragment: the state of Restore and of the output
\* tree it leaves, and whether it raised
process_file(b_file) ==
    IF b_file.errors # <<>> THEN skip_file(b_file) ELSE merge_file(b_file)

\* ------------------------------------------------------------------ inputs
Bytes16(n) == <<n % 256, n \div 256>>

Zeros(n) == [k \in 1..n |-> 0]

\* a 128-byte header record; nz, when in 7..127, is the offset of one
\* reserved byte set to 1
HeaderData(flag, sequence, nz) ==
    <<flag>> \o Bytes16(sequence) \o Bytes16(1985) \o <<24, 12>>
    \o [j \in 1..(HeaderSize - 7) |-> IF j + 6 = nz THEN 1 ELSE 0]

\* a fragment record: flag@0, sequence@1, unknown@3, path@5.., path_len@0x53,
\* content@0x80..
FileData(flag, sequence, raw, path_len, content) ==
    <<flag>> \o Bytes16(sequence) \o Bytes16(0) \o raw
    \o Zeros(PathLenAt - 5 - Len(raw)) \o <<path_len>>
    \o Zeros(ContentAt - PathLenAt - 1) \o content

\* '\A\B', written as a/b
PathAB == <<92, 65, 92, 66>>
\* '\C', written as c: a file at the top of the output tree
PathC == <<92, 67>>

\* the content of the fragment numbered q: 'x', 'y', 'z', ...
ContentOf(q) == <<119 + q>>

\* error-free fragments: every flag and sequence number for '\A\B', and for
\* '\C' a whole file and the two fragments of a split one
GoodFiles ==
    {FileData(flag, q, PathAB, Len(PathAB), ContentOf(q)) :
        flag \in {0, 255}, q \in 1..MaxSeq}
    \cup {FileData(255, 1, PathC, Len(PathC), ContentOf(1)),
          FileData(0, 1, PathC, Len(PathC), ContentOf(1)),
          FileData(255, 2, PathC, Len(PathC), ContentOf(2))}

\* fragments with a warning: a flag that is neither 0x00 nor 0xff, a path
\* length of 0, a path length of 79
BadFiles ==
    {FileData(1, 1, PathAB, Len(PathAB), ContentOf(1)),
     FileData(255, 1, PathAB, 0, ContentOf(1)),
     FileData(0, 2, PathAB, MaxPathLen + 1, ContentOf(2))}

FileInputs == GoodFiles \cup BadFiles

HeaderInputs == {HeaderData(0, 1, 0), HeaderData(1, 1, 0)}

\* ----------------------------------------------------------------- actions
Init ==
    /\ completed = {}
    /\ done = EmptyMap
    /\ errors = <<>>
    /\ partials = EmptyMap
    /\ sets = EmptyMap
    /\ files = EmptyMap
    /\ dirs = {}
    /\ changed = <<>>
    /\ report = {}
    /\ pc = "start"
    /\ vol = 0
    /\ nfiles = 0
    /\ arrived = <<>>
    /\ writes = <<>>

\* restore_all: process_disk has returned, if it was running, and the next
\* header of the list is taken; add_backup_id(header) registers it, or the
\* assertions of BackupID end the run
AddBackupId(blob) ==
    /\ pc \in {"start", "disk"}
    /\ vol < MaxVolumes
    /\ vol' = vol + 1
    /\ IF BackupIDFromFileOk(blob)
       THEN /\ sets' = Put(sets, vol + 1, BackupID(vol + 1, blob))
            /\ pc' = "disk"
       ELSE /\ sets' = sets
            /\ pc' = "aborted"
    /\ UNCHANGED <<completed, done, errors, partials, files, dirs, changed,
                   report, nfiles, arrived, writes>>

\* process_file has run on b_file and left r
Processing(b_file, r) ==
    /\ arrived' = Append(arrived, b_file)
    /\ completed' = r.completed
    /\ errors' = r.errors
    /\ partials' = r.partials
    /\ files' = r.files
    /\ dirs' = r.dirs
    /\ changed' = r.changed
    /\ writes' = r.writes
    /\ pc' = IF r.raised THEN "aborted" ELSE "disk"

Decoded(b_file) == Processing(b_file, process_file(b_file))

\* process_disk: the next fragment file of the volume goes to process_file,
\* which decodes it (a record too short for data[0x53] raises IndexError)
ProcessFile(data) ==
    /\ pc = "disk"
    /\ nfiles < MaxFiles
    /\ nfiles' = nfiles + 1
    /\ IF ~BackupFileOk(data)
       THEN /\ pc' = "aborted"
            /\ UNCHANGED <<completed, errors, partials, files, dirs, changed,
                           arrived, writes>>
       ELSE Decoded(BackupFile(<<vol, nfiles + 1>>, data))
    /\ UNCHANGED <<done, sets, report, vol>>

\* restore_all after its loop (the list of headers is used up and the last
\* process_disk has returned): the unfinished files are printed
Report ==
    /\ pc \in {"start", "disk"}
    /\ pc' = "done"
    /\ report' = DOMAIN partials
    /\ UNCHANGED <<completed, done, errors, partials, sets, files, dirs,
                   changed, vol, nfiles, arrived, writes>>

Next ==
    \/ \E blob \in HeaderInputs : AddBackupId(blob)
    \/ \E data \in FileInputs : ProcessFile(data)
    \/ Report

Spec == Init /\ [][Next]_vars

\* ------------------------------------------------- the header decoder alone
\* a 128-byte header record with bytes 1..6 all non-zero and the reserved
\* bytes at the offsets nz set to value
HeaderWith(flag, nz, value) ==
    <<flag>> \o Bytes16(257) \o Bytes16(1985) \o <<24, 12>>
    \o [j \in 1..(HeaderSize - 7) |-> IF j + 6 \in nz THEN value ELSE 0]

\* headers with the two flags of the format and two others, with no, one or
\* three reserved bytes set, and one header a byte short
HeaderCases ==
    {HeaderWith(flag, nz, value) :
        flag \in {0, 255, 1, 254},
        nz \in {{}, {7}, {10}, {127}, {7, 10, 127}},
        value \in {1, 255}}
    \cup {SubSeq(HeaderWith(0, {}, 0), 1, HeaderSize - 1)}

\* a run over volumes that hold no fragment file
NextHeader ==
    \/ \E blob \in HeaderCases : AddBackupId(blob)
    \/ Report

SpecHeader == Init /\ [][NextHeader]_vars

\* ------------------------------------------------------------------ claims
\* the fragment a process_file step has decoded
Processed == Len(arrived') = Len(arrived) + 1

Arriving == arrived'[Len(arrived')]

\* the logical paths of the fragments decoded so far
Paths == {arrived[k].path : k \in 1..Len(arrived)}

ArrivedFor(p) == SelectSeq(arrived, LAMBDA f : f.path = p)

WritesFor(p) == SelectSeq(writes, LAMBDA w : w.path = p)

\* C1: no logical path is at once a key of partials and a member of
\* completed, and every pending list holds at least one fragment.
C1_PendingOrCompleted ==
    /\ DOMAIN partials \cap completed = {}
    /\ \A p \in DOMAIN partials : partials[p] # <<>>

\* The fragments in A are error-free, carry distinct sequence numbers from 1
\* up, and last is set on none of them or on the one with the greatest
\* number N >= 2: A is a part, in some order, of the fragments 1..N of a file.
PartOfSplitFile(A) ==
    /\ A # <<>>
    /\ \A k \in 1..Len(A) : A[k].errors = <<>> /\ A[k].sequence >= 1
    /\ \A j, k \in 1..Len(A) : j # k => A[j].sequence # A[k].sequence
    /\ \A k \in 1..Len(A) :
          A[k].last => /\ A[k].sequence >= 2
                       /\ \A j \in 1..Len(A) : A[j].sequence <= A[k].sequence

\* all of the fragments 1..N have arrived
WholeSplitFile(A) == \E k \in 1..Len(A) : A[k].last /\ A[k].sequence = Len(A)

\* the contents of the fragments of A in ascending sequence order
InOrder(A) ==
    Flatten([i \in 1..Len(A) |->
                (CHOOSE f \in {A[k] : k \in 1..Len(A)} : f.sequence = i).content])

\* C2: when the fragments that arrived for a path are, in any order, fragments
\* of one split file 1..N (N >= 2, last on N only), nothing is written for
\* the path before all N have arrived, and once they have the path has been
\* written exactly once, with the contents in ascending sequence order.
C2_WrittenOnceInOrder ==
    \A p \in Paths :
        LET A == ArrivedFor(p)
            W == WritesFor(p)
        IN  PartOfSplitFile(A) =>
                IF WholeSplitFile(A)
                THEN Len(W) = 1 /\ W[1].content = InOrder(A)
                ELSE W = <<>>

\* C3: a process_file step on an error-free fragment with last set and
\* sequence 1 writes one file, with the content of that fragment, adds the
\* path to completed and leaves partials as it was.
C3_CompleteWrittenAtOnce ==
    [][(Processed /\ Arriving.errors = <<>> /\ is_complete(Arriving)) =>
          /\ Len(writes') = Len(writes) + 1
          /\ writes'[Len(writes')].path = Arriving.path
          /\ writes'[Len(writes')].content = Arriving.content
          /\ Arriving.path \in completed'
          /\ partials' = partials]_vars

\* C4: a process_file step on a fragment that carries a warning leaves
\* partials, completed and the output unchanged, appends the fragment to
\* errors, and the run goes on with the next file.
C4_SkippedLeavesState ==
    [][(Processed /\ Arriving.errors # <<>>) =>
          /\ partials' = partials
          /\ completed' = completed
          /\ files' = files
          /\ dirs' = dirs
          /\ writes' = writes
          /\ changed' = changed
          /\ errors' = Append(errors, Arriving)
          /\ pc' = "disk"]_vars

\* a fragment was pending, a fragment with a warning was skipped, and the
\* fragment after it completed the file, which was written from both parts
C4_Witness ==
    /\ Len(arrived) = 3
    /\ arrived[1].errors = <<>>
    /\ arrived[2].errors # <<>>
    /\ arrived[3].errors = <<>>
    /\ Len(errors) = 1
    /\ Len(writes) = 1
    /\ writes[1].parts = 2

\* C5: a process_file step on an error-free fragment whose path is in
\* completed creates or extends no pending entry, writes no file and leaves
\* the path completed.
C5_CompletedNotRemerged ==
    [][(Processed /\ Arriving.errors = <<>> /\ Arriving.path \in completed) =>
          /\ partials' = partials
          /\ writes' = writes
          /\ files' = files
          /\ Arriving.path \in completed']_vars

\* the pending list is numbered 1..N in ascending order and a fragment other
\* than the final one has last set
Inconsistent(slices) ==
    LET s == SortedSlices(slices)
    IN  /\ \A i \in 1..Len(s) : s[i].sequence = i
        /\ \E i \in 1..(Len(s) - 1) : s[i].last

\* C6: when a fragment makes its pending list inconsistent in that way,
\* process_file returns (the run is not ended), and the final element's last
\* flag decides: set, the file is written and the path completed; not set,
\* the list stays pending.
C6_InconsistencyNotFatal ==
    [][(/\ Processed
        /\ Arriving.errors = <<>>
        /\ ~is_complete(Arriving)
        /\ Inconsistent(Append(Get(partials, Arriving.path, <<>>), Arriving))) =>
          LET slices == Append(Get(partials, Arriving.path, <<>>), Arriving)
              s == SortedSlices(slices)
          IN  /\ pc' = "disk"
              /\ IF s[Len(s)].last
                 THEN /\ Arriving.path \in completed'
                      /\ Arriving.path \notin DOMAIN partials'
                      /\ Len(writes') = Len(writes) + 1
                 ELSE /\ Arriving.path \in DOMAIN partials'
                      /\ partials'[Arriving.path] = slices
                      /\ writes' = writes]_vars

\* the bytes last written to an output path, <<>> when it was never written
LastWritten(o_path) ==
    LET W == SelectSeq(writes, LAMBDA w : w.o_path = o_path)
    IN  IF W = <<>> THEN <<>> ELSE W[Len(W)].content

WrittenBefore(o_path) == \E k \in 1..Len(writes) : writes[k].o_path = o_path

\* C7: a step that writes an output path written before prints no 'content
\* changed' line when the bytes are those last written there, and exactly one
\* when they differ.
C7_ChangeReported ==
    [][(Len(writes') = Len(writes) + 1
        /\ WrittenBefore(writes'[Len(writes')].o_path)) =>
          LET w == writes'[Len(writes')]
          IN  changed' = IF w.content = LastWritten(w.o_path) THEN changed
                         ELSE Append(changed, w.o_path)]_vars

\* the fragments that arrived for p are error-free and none has last set
OnlyOpenFragments(p) ==
    LET A == ArrivedFor(p)
    IN  A # <<>> /\ \A k \in 1..Len(A) : A[k].errors = <<>> /\ ~A[k].last

\* C8: at the end of the run the report lists exactly the pending paths, and a
\* path for which only error-free fragments with last clear arrived (thus
\* fragments 1..k of a file whose end never came) is pending, is in the report
\* and has had nothing written.
C8_OpenFileUnfinished ==
    pc = "done" =>
        /\ report = DOMAIN partials
        /\ \A p \in Paths :
              OnlyOpenFragments(p) =>
                  /\ p \in DOMAIN partials
                  /\ partials[p] = ArrivedFor(p)
                  /\ WritesFor(p) = <<>>
                  /\ p \in report

\* the run has ended with fragments 1 and 2 of a file, from two volumes,
\* pending and reported
C8_Witness ==
    /\ pc = "done"
    /\ \E p \in report :
          /\ OnlyOpenFragments(p)
          /\ Len(partials[p]) = 2
          /\ {partials[p][k].sequence : k \in 1..2} = {1, 2}
          /\ partials[p][1].image_path[1] # partials[p][2].image_path[1]

\* C9: every path of the report is one that was never completed and for which
\* no file was written.
C9_ReportedNeverCompleted ==
    pc = "done" =>
        \A p \in report : p \notin completed /\ WritesFor(p) = <<>>

\* C10: the run is never ended by a header or by a fragment: restore_all
\* always gets to its report.
C10_RunNeverEnded == pc # "aborted"

\* ----------------------------------------------- the fragment decoder alone
\* '\D\' and 75 letters: a path that fills the 78 bytes of the path field
PathLong == <<92, 68, 92>> \o [k \in 1..(MaxPathLen - 3) |-> 65]
\* '\A\', the byte 0x01, 'B': a control byte among ASCII bytes
PathCtl == <<92, 65, 92, 1, 66>>
\* '\A\', the bytes 0x01 and 0xe9: a control byte next to a non-ASCII byte
PathCtlHigh == <<92, 65, 92, 1, 233>>
\* the bytes 0xe9 and 0x7f, '\A'
PathHighDel == <<233, 127, 92, 65>>

\* fragment records that differ in the path field and the path length byte
FileCases ==
    {FileData(0, 1, PathAB, 0, ContentOf(1)),
     FileData(1, 1, PathAB, MaxPathLen + 1, ContentOf(1)),
     FileData(0, 1, PathAB, 255, ContentOf(1)),
     FileData(255, 1, <<0>>, 1, ContentOf(1)),
     FileData(255, 1, <<65>>, 1, ContentOf(1)),
     FileData(255, 1, PathLong, MaxPathLen, ContentOf(1)),
     FileData(0, 1, PathCtl, 5, ContentOf(1)),
     FileData(255, 1, PathCtlHigh, 5, ContentOf(1)),
     FileData(0, 1, PathHighDel, 4, ContentOf(1)),
     FileData(0, 2, PathAB, 5, ContentOf(2)),
     FileData(255, 1, PathAB, 6, ContentOf(1)),
     FileData(255, 1, BadFile, 8, ContentOf(1))}

\* a run over volumes whose fragment files are drawn from FileCases
NextDecode ==
    \/ AddBackupId(HeaderData(0, 1, 0))
    \/ \E data \in FileCases : ProcessFile(data)
    \/ Report

SpecDecode == Init /\ [][NextDecode]_vars

\* ------------------------------------- two paths with the same output path
\* 'a/b', written as a/b like '\A\B'
PathSlash == <<97, 47, 98>>

\* the fragments of two files cut in two, and each file whole
FilePairs ==
    {FileData(flag, q, raw, Len(raw), ContentOf(q) \o <<raw[1]>>) :
        flag \in {0, 255}, q \in {1, 2}, raw \in {PathAB, PathSlash}}
    \ {FileData(0, 2, raw, Len(raw), ContentOf(2) \o <<raw[1]>>) :
        raw \in {PathAB, PathSlash}}

\* a run over volumes whose fragment files are drawn from FilePairs
NextPairs ==
    \/ AddBackupId(HeaderData(0, 1, 0))
    \/ \E data \in FilePairs : ProcessFile(data)
    \/ Report

SpecPairs == Init /\ [][NextPairs]_vars

\* C11: add_backup_id on a 128-byte header registers a BackupID exactly when
\* byte 0 is 0x00 or 0xff, with last false for 0x00 and true for 0xff; for any
\* other flag nothing is registered for the volume and the decoding is fatal.
C11_HeaderFlagDecides ==
    [][\A blob \in HeaderCases :
          (Len(blob) = HeaderSize /\ AddBackupId(blob)) =>
              IF blob[1] = 0 \/ blob[1] = 255
              THEN /\ DOMAIN sets' = DOMAIN sets \cup {vol + 1}
                   /\ sets'[vol + 1].last = (blob[1] = 255)
                   /\ pc' = "disk"
              ELSE /\ sets' = sets
                   /\ pc' = "aborted"]_vars

\* a header with flag 0x00 and one with 0xff are registered, the first not
\* last and the second last
C11_Witness ==
    /\ DOMAIN sets = {1, 2}
    /\ ~sets[1].last
    /\ sets[2].last

\* the offsets 7..127 of blob that hold a non-zero byte
NonZeroReserved(blob) == {i \in 7..(HeaderSize - 1) : blob[i + 1] # 0}

\* C14: a 128-byte header with a valid flag is registered whatever its
\* reserved bytes are, and its warnings are one for each non-zero byte at the
\* offsets 7..127, with that offset and value, in ascending order of offset;
\* bytes 0..6 give no warning.
C14_ReservedWarnings ==
    [][\A blob \in HeaderCases :
          (/\ Len(blob) = HeaderSize
           /\ (blob[1] = 0 \/ blob[1] = 255)
           /\ AddBackupId(blob)) =>
              /\ vol + 1 \in DOMAIN sets'
              /\ LET e == sets'[vol + 1].errors
                 IN  /\ Len(e) = Cardinality(NonZeroReserved(blob))
                     /\ {e[k].at : k \in 1..Len(e)} = NonZeroReserved(blob)
                     /\ \A k \in 1..Len(e) : e[k].value = blob[e[k].at + 1]
                     /\ \A j, k \in 1..Len(e) : j < k => e[j].at < e[k].at]_vars

\* a header with the single non-zero reserved byte at offset 10 is registered
\* with one warning, which names offset 10, and a header with three non-zero
\* reserved bytes with three
C14_Witness ==
    /\ DOMAIN sets = {1, 2}
    /\ Len(sets[1].errors) = 1
    /\ sets[1].errors[1].at = 10
    /\ Len(sets[2].errors) = 3

\* the bytes of the path field the decoder keeps: path_len bytes from offset
\* 5, less one trailing 0x00
KeptPathBytes(data) ==
    LET n == data[PathLenAt + 1]
    IN  IF data[5 + n] = 0 THEN SubSeq(data, 6, 4 + n) ELSE SubSeq(data, 6, 5 + n)

\* the characters '0'..'9', 'a'..'f'
LowerHex == <<48, 49, 50, 51, 52, 53, 54, 55, 56, 57, 97, 98, 99, 100, 101, 102>>

\* a byte below 0x20 or outside ASCII
ToEscape(b) == b < 32 \/ b >= 128

\* the place in the escaped text of the byte raw[k], when each byte of
\* raw that is to be escaped takes three characters and every other byte one
RECURSIVE EscapedAt(_, _)
EscapedAt(raw, k) ==
    IF k = 1 THEN 1
    ELSE EscapedAt(raw, k - 1) + (IF ToEscape(raw[k - 1]) THEN 3 ELSE 1)

\* the path length byte of data is in 1..78
ValidPathLen(data) == data[PathLenAt + 1] >= 1 /\ data[PathLenAt + 1] <= 78

\* C12: in the path decoded from a record with a valid path length, every
\* path byte below 0x20 (0x01 among them, whatever the other bytes are) or
\* outside ASCII appears at its place as '%' and two lowercase hex digits.
C12_ControlBytesEscaped ==
    [][\A data \in FileCases :
          (ValidPathLen(data) /\ ProcessFile(data) /\ Processed) =>
              LET raw == KeptPathBytes(data)
              IN  \A k \in 1..Len(raw) :
                      ToEscape(raw[k]) =>
                          LET at == EscapedAt(raw, k)
                          IN  /\ at + 2 <= Len(Arriving.path)
                              /\ SubSeq(Arriving.path, at, at + 2) =
                                     <<37, LowerHex[(raw[k] \div 16) + 1],
                                       LowerHex[(raw[k] % 16) + 1]>>]_vars

\* the fragment f carries a warning about its path length
PathLenWarned(f) ==
    \E k \in 1..Len(f.errors) : f.errors[k].kind = "unexpected file path len"

\* C13: a decoded fragment without a path-length warning has a non-empty
\* path (a path length of 1 with the single byte 0x00 included), and the path
\* 'bad_file' comes only with a path-length warning.
C13_PathNeverEmpty ==
    [][\A data \in FileCases :
          (ProcessFile(data) /\ Processed) =>
              /\ ValidPathLen(data) => Arriving.path # <<>>
              /\ ~PathLenWarned(Arriving) => Arriving.path # <<>>
              /\ Arriving.path = BadFile => PathLenWarned(Arriving)]_vars

\* C16: the decoder accepts the path length byte exactly in 1..78: for 0 and
\* for 79..255 it records one warning with that length and the path is
\* 'bad_file'; for 1..78 it records no path-length warning and the path is
\* made from the bytes 5..5+path_len less one trailing 0x00 (those bytes
\* themselves when all are ASCII).
C16_PathLenRange ==
    [][\A data \in FileCases :
          (ProcessFile(data) /\ Processed) =>
              LET n == data[PathLenAt + 1]
                  e == Arriving.errors
                  warned == {k \in 1..Len(e) : e[k].kind = "unexpected file path len"}
              IN  IF n = 0 \/ n >= 79
                  THEN /\ Arriving.path = BadFile
                       /\ warned = {1}
                       /\ e[1].value = n
                  ELSE /\ warned = {}
                       /\ Arriving.path # BadFile \/ KeptPathBytes(data) = BadFile
                       /\ Len(Arriving.path) >= Len(KeptPathBytes(data))
                       /\ (\A k \in 1..Len(KeptPathBytes(data)) :
                              KeptPathBytes(data)[k] < 128)
                           => Arriving.path = KeptPathBytes(data)]_vars

\* fragments with the path lengths 1 and 78 were decoded without a warning
\* and one with the path length 79 with the warning and the path 'bad_file'
C16_Witness ==
    /\ \E k \in 1..Len(arrived) :
          arrived[k].path_len = 1 /\ arrived[k].errors = <<>>
                                  /\ Len(arrived[k].path) = 1
    /\ \E k \in 1..Len(arrived) :
          arrived[k].path_len = 78 /\ arrived[k].errors = <<>>
                                   /\ Len(arrived[k].path) = 78
    /\ \E k \in 1..Len(arrived) :
          arrived[k].path_len = 79 /\ arrived[k].path = BadFile

\* the step has appended an error-free fragment that is not complete in
\* itself to the pending list of its path
Pended == Processed /\ Arriving.errors = <<>> /\ ~is_complete(Arriving)

\* the pending list the completeness test of the step is applied to
PendingList == Append(Get(partials, Arriving.path, <<>>), Arriving)

\* the sequence numbers of slices are exactly 1..N, each once
NumberedOnce(slices) ==
    \A i \in 1..Len(slices) :
        Cardinality({k \in 1..Len(slices) : slices[k].sequence = i}) = 1

\* the fragment of slices numbered N has last set
FinalIsLast(slices) ==
    \E k \in 1..Len(slices) :
        slices[k].sequence = Len(slices) /\ slices[k].last

\* C15: got_all_slices on a non-empty pending list returns true if and only
\* if the sequence numbers are exactly 1..N and the final element after the
\* sort has last set; a list numbered 1..N whose final element has last
\* unset gives false and the path stays pending.
C15_CompleteIffNumberedAndLast ==
    [][Pended =>
          /\ got_all_slices(PendingList) =
                 (IF NumberedOnce(PendingList) /\ FinalIsLast(PendingList)
                  THEN "True" ELSE "False")
          /\ (NumberedOnce(PendingList) /\ ~FinalIsLast(PendingList)) =>
                 /\ pc' = "disk"
                 /\ Arriving.path \in DOMAIN partials'
                 /\ partials'[Arriving.path] = PendingList]_vars

\* every logical path in the state before or after the step
KnownPaths ==
    DOMAIN partials \cup DOMAIN partials' \cup completed \cup completed'

\* C17: a process_file step on a fragment with path P leaves, for every other
\* path, the pending list and the membership in completed as they were,
\* whatever the volume of the fragment and also when the other path has the
\* output path of P.
C17_OtherPathsUntouched ==
    [][Processed =>
          \A q \in KnownPaths \ {Arriving.path} :
              /\ q \in completed <=> q \in completed'
              /\ q \in DOMAIN partials <=> q \in DOMAIN partials'
              /\ q \in DOMAIN partials => partials'[q] = partials[q]]_vars

\* 'a/b' is pending with a fragment of the first volume while '\A\B', which
\* has the same output path, was put together from fragments of the first
\* and second volume, written and completed
C17_Witness ==
    /\ PathSlash \in DOMAIN partials
    /\ partials[PathSlash][1].image_path[1] = 1
    /\ PathSlash \notin completed
    /\ PathAB \in completed
    /\ PathAB \notin DOMAIN partials
    /\ OutputPath(PathAB) = OutputPath(PathSlash)
    /\ \E k \in 1..Len(writes) :
          /\ writes[k].path = PathAB
          /\ writes[k].parts = 2
    /\ arrived[Len(arrived)].path = PathAB
    /\ arrived[Len(arrived)].image_path[1] = 2

\* C18: whenever process_file writes a file from a pending list, the
\* fragments of the list carry the sequence numbers 1..N each exactly once,
\* the fragment numbered N has last set, and the bytes written are the
\* contents in ascending sequence order: no file with a gap or a duplicate is
\* written, whatever fragments arrive in whatever order.
C18_WrittenListsAreWhole ==
    [][(Pended /\ writes' # writes) =>
          LET w == writes'[Len(writes')]
          IN  /\ Len(writes') = Len(writes) + 1
              /\ NumberedOnce(PendingList)
              /\ FinalIsLast(PendingList)
              /\ w.path = Arriving.path
              /\ w.parts = Len(PendingList)
              /\ w.content = InOrder(PendingList)
              /\ files'[w.o_path] = InOrder(PendingList)]_vars

\* a file was written from a pending list of three fragments of which the
\* one numbered 1 arrived last
C18_Witness ==
    /\ arrived # <<>>
    /\ writes # <<>>
    /\ writes[Len(writes)].parts = 3
    /\ writes[Len(writes)].path = arrived[Len(arrived)].path
    /\ arrived[Len(arrived)].sequence = 1
    /\ ~arrived[Len(arrived)].last

\* two fragments of slices carry the same sequence number
HasDuplicate(slices) ==
    \E j, k \in 1..Len(slices) :
        j # k /\ slices[j].sequence = slices[k].sequence

\* C19: once the pending list of a path holds two fragments with the same
\* sequence number it keeps them: no later fragment that is not complete in
\* itself makes got_all_slices true, the list is never written nor its entry
\* deleted, and the path is among the unfinished ones at the end of the run.
C19_DuplicateNeverCompletes ==
    [][\A p \in DOMAIN partials :
          HasDuplicate(partials[p]) =>
              /\ p \in DOMAIN partials'
              /\ HasDuplicate(partials'[p])
              /\ SubSeq(partials'[p], 1, Len(partials[p])) = partials[p]
              /\ (Pended /\ Arriving.path = p) =>
                     /\ got_all_slices(PendingList) # "True"
                     /\ writes' = writes
                     /\ completed' = completed
              /\ pc' = "done" => p \in report']_vars

\* the run has ended with a path reported unfinished whose pending list
\* holds 1, 1 and then 2 with last set: every number of 1..2 is there and
\* the final fragment is the last one
C19_Witness ==
    /\ pc = "done"
    /\ \E p \in report :
          /\ Len(partials[p]) = 3
          /\ partials[p][1].sequence = 1
          /\ partials[p][2].sequence = 1
          /\ partials[p][3].sequence = 2
          /\ partials[p][3].last

====
